---- MODULE Spec2Model ----
(***************************************************************************)
(* A model of the Kasiski examination (kasiski_examination.py) and of the  *)
(* language detection (language.py).  Every function of the two files is   *)
(* an operator computed the way the code computes it; every action is one  *)
(* call of a function, made either on inputs drawn from bounded sets or on *)
(* the value the previous call returned (the pipeline                      *)
(* find_repeat_sequences -> get_spaces -> find_key_lengths).               *)
(*                                                                         *)
(* A str is a sequence of one-character strings; text[i:j] is              *)
(* SubSeq(text, i+1, j).  A dict is the sequence of its items in insertion *)
(* order.  Optional[int] is <<>> (None) or <<k>>.                          *)
(***************************************************************************)
EXTENDS Integers, Sequences, FiniteSets, TLC

VARIABLES op, piped, text, min_length, sequences, spaces, number, divisors,
          n, factors, key_lengths, result, raised,
          store, languages, language, threshold, similarities, typical

kasiski_vars == <<min_length, sequences, spaces, number, divisors, n, factors,
                  key_lengths, result>>

language_vars == <<store, languages, language, threshold, similarities, typical>>

vars == <<op, piped, text, raised, kasiski_vars, language_vars>>

\* ------------------------------------------------------------- bounds
\* longest text given to find_repeat_sequences
MaxLen == 10
\* largest number given to find_factors, and largest spacing given directly
\* to find_key_lengths
MaxNumber == 9
\* longest list of spacings given directly to find_key_lengths
MaxSpaces == 2
\* largest n given to find_key_lengths
MaxN == 3
\* most offsets of one key in a sequence map given directly to get_spaces
MaxOffsets == 3
\* longest text formed by repeating a block
MaxRepeatedLen == 16
\* longest text given to detect_language and is_typical
MaxTextLen == 2
\* longest list of languages given to detect_language
MaxLanguages == 2
\* expected frequencies are the multiples 0/FreqDen .. MaxFreq/FreqDen
MaxFreq == 1
FreqDen == 2

\* ------------------------------------------------------------- constants
\* def find_repeat_sequences(text, min_length: int = 3)
DefaultMinLength == 3
\* def is_typical(text, language, threshold: int = 0.4), in tenths
DefaultThreshold == 4
ThresholdDen == 10

Alphabet == {"a", "b"}

None == <<>>

Some(k) == <<k>>

Min(x, y) == IF x <= y THEN x ELSE y

Max(x, y) == IF x >= y THEN x ELSE y

\* ------------------------------------------------------------- str
\* text[i:j] for 0 <= i <= j <= len(text)
Slice(s, i, j) == SubSeq(s, i + 1, j)

\* ------------------------------------------------------------- dict
\* sequence in sequences
HasKey(d, k) == \E j \in 1..Len(d) : d[j][1] = k

\* the place of key k among the items of d
IndexOf(d, k) == CHOOSE j \in 1..Len(d) : d[j][1] = k

\* d with the value of key k, the item at place j, replaced by v
Replace(d, j, k, v) == SubSeq(d, 1, j - 1) \o <<<<k, v>>>> \o SubSeq(d, j + 1, Len(d))

\* sequences[sequence].append(i)
AppendPosition(d, k, i) ==
    LET j == IndexOf(d, k) IN Replace(d, j, k, Append(d[j][2], i))

\* ------------------------------------------------------------- find_repeat_sequences
\* the range check written with > in place of >=
InvalidMinLengthLoose(t, m) == m < 2 \/ m > Len(t) \div 2

\* if min_length < 2 or min_length >= len(text) // 2: raise ValueError
InvalidMinLength(t, m) == m < 2 \/ m >= Len(t) \div 2

\* range(len(text) - length): the start indices that are scanned
ScanEnd(t, length) == Len(t) - length

\* for i in range(len(text) - length): ... (the loop from index i on)
RECURSIVE InnerLoop(_, _, _, _)
InnerLoop(t, length, i, d) ==
    IF i >= ScanEnd(t, length)
    THEN d
    ELSE LET sequence == Slice(t, i, i + length)
         IN  IF HasKey(d, sequence)
             THEN InnerLoop(t, length, i + 1, AppendPosition(d, sequence, i))
             ELSE InnerLoop(t, length, i + 1, Append(d, <<sequence, <<i>>>>))

\* for length in range(min_length, len(text) // 2 + 1): ... (from length on)
RECURSIVE OuterLoop(_, _, _)
OuterLoop(t, length, d) ==
    IF length >= Len(t) \div 2 + 1
    THEN d
    ELSE OuterLoop(t, length + 1, InnerLoop(t, length, 0, d))

\* {sequence: positions for ... if len(positions) > 1}
RECURSIVE Repeated(_)
Repeated(d) ==
    IF d = <<>>
    THEN <<>>
    ELSE IF Len(Head(d)[2]) > 1
         THEN <<Head(d)>> \o Repeated(Tail(d))
         ELSE Repeated(Tail(d))

find_repeat_sequences(t, m) ==
    IF InvalidMinLength(t, m)
    THEN [raised |-> "ValueError", value |-> <<>>]
    ELSE [raised |-> "none", value |-> Repeated(OuterLoop(t, m, <<>>))]

\* ------------------------------------------------------------- get_spaces
\* the distances measured from the first offset instead of the previous one
GapsFromFirst(positions) ==
    [i \in 1..(Len(positions) - 1) |-> positions[i + 1] - positions[1]]

\* for i in range(len(positions) - 1): spaces.append(positions[i + 1] - positions[i])
Gaps(positions) ==
    [i \in 1..(Len(positions) - 1) |-> positions[i + 1] - positions[i]]

\* for positions in sequences.values(): ...
RECURSIVE get_spaces(_)
get_spaces(d) ==
    IF d = <<>> THEN <<>> ELSE Gaps(Head(d)[2]) \o get_spaces(Tail(d))

\* ------------------------------------------------------------- find_factors
\* the loop condition written with < in place of <=
TrialBoundStrict(i, num) == i * i < num

\* while i*i <= number
TrialBound(i, num) == i * i <= num

\* the while loop of find_factors from i on
RECURSIVE TrialDivide(_, _, _)
TrialDivide(num, i, fs) ==
    IF TrialBound(i, num)
    THEN TrialDivide(num, i + 1,
                     IF num % i = 0 THEN fs \cup {i, num \div i} ELSE fs)
    ELSE fs

\* find_factors without its last statement
AddNumberItselfOmitted(fs, num) == fs

\* factors.add(number)
AddNumberItself(fs, num) == fs \cup {num}

find_factors(num) ==
    IF num <= 1
    THEN [raised |-> "ValueError", value |-> {}]
    ELSE [raised |-> "none", value |-> AddNumberItself(TrialDivide(num, 2, {}), num)]

\* ------------------------------------------------------------- find_key_lengths
\* The iteration orders a set can have: Python leaves the order of a set
\* unspecified, so factors.extend(find_factors(distance)) appends the
\* factors in any one order.
Orderings(S) ==
    {p \in [1..Cardinality(S) -> S] : \A i, j \in 1..Cardinality(S) : p[i] = p[j] => i = j}

\* One iteration order for the set of every distinct spacing (the same
\* number is factorized the same way every time).
RECURSIVE IterationOrders(_)
IterationOrders(nums) ==
    IF nums = {}
    THEN {<<>>}
    ELSE LET v == CHOOSE x \in nums : TRUE
         IN  {f @@ (v :> p) : f \in IterationOrders(nums \ {v}),
                              p \in Orderings(find_factors(v).value)}

\* for distance in spaces: factors.extend(find_factors(distance))
RECURSIVE ExtendAll(_, _)
ExtendAll(sp, order) ==
    IF sp = <<>> THEN <<>> ELSE order[Head(sp)] \o ExtendAll(Tail(sp), order)

\* key_lengths[factor] = key_lengths.get(factor, 0) + 1, factor being a key
Increment(d, k) ==
    LET j == IndexOf(d, k) IN Replace(d, j, k, d[j][2] + 1)

\* for factor in factors: key_lengths[factor] = key_lengths.get(factor, 0) + 1
RECURSIVE TallyAll(_, _)
TallyAll(fl, d) ==
    IF fl = <<>>
    THEN d
    ELSE IF HasKey(d, Head(fl))
         THEN TallyAll(Tail(fl), Increment(d, Head(fl)))
         ELSE TallyAll(Tail(fl), Append(d, <<Head(fl), 0 + 1>>))

\* a step of an unstable sort: the item goes before the items of its own count
InsertBeforeEqual(sorted, item) ==
    LET keep == {j \in 1..Len(sorted) : sorted[j][2] > item[2]}
        k == Cardinality(keep)
    IN  SubSeq(sorted, 1, k) \o <<item>> \o SubSeq(sorted, k + 1, Len(sorted))

\* One step of sorted(..., key=lambda x: x[1], reverse=True): the item goes
\* behind every item whose count is at least its own (the sort is stable).
InsertByCount(sorted, item) ==
    LET keep == {j \in 1..Len(sorted) : sorted[j][2] >= item[2]}
        k == Cardinality(keep)
    IN  SubSeq(sorted, 1, k) \o <<item>> \o SubSeq(sorted, k + 1, Len(sorted))

\* sorted(key_lengths.items(), key=lambda x: x[1], reverse=True)
RECURSIVE SortedByCount(_, _)
SortedByCount(items, acc) ==
    IF items = <<>> THEN acc ELSE SortedByCount(Tail(items), InsertByCount(acc, Head(items)))

\* an nlargest that returns an item even for n <= 0
nlargestUnclamped(k, items) ==
    SubSeq(SortedByCount(items, <<>>), 1, Min(Max(k, 1), Len(items)))

\* heapq.nlargest(n, key_lengths.items(), key=lambda x: x[1]): the n first
\* items of sorted(items, key=key, reverse=True), none for n <= 0
nlargest(k, items) ==
    IF k <= 0 THEN <<>> ELSE SubSeq(SortedByCount(items, <<>>), 1, Min(k, Len(items)))

\* find_factors(distance) raises for some distance of the loop
Unfactorizable(sp) == \E j \in 1..Len(sp) : sp[j] <= 1

\* find_key_lengths(spaces, n), the sets iterated in the given orders
find_key_lengths(sp, k, order) ==
    IF Unfactorizable(sp)
    THEN [raised |-> "ValueError", factors |-> <<>>, key_lengths |-> <<>>, value |-> <<>>]
    ELSE LET fl == ExtendAll(sp, order)
             kl == TallyAll(fl, <<>>)
         IN  [raised |-> "none", factors |-> fl, key_lengths |-> kl,
              value |-> IF k = None THEN SortedByCount(kl, <<>>) ELSE nlargest(k[1], kl)]

\* ------------------------------------------------------------- language.py
LangAlphabet == {"a", "A", "b"}

TableChars == {"a", "b"}

LangNames == {"english", "german"}

\* str.lower() on one character
LowerChar(c) == IF c = "A" THEN "a" ELSE c

\* text.lower()
Lower(t) == [i \in 1..Len(t) |-> LowerChar(t[i])]

\* Counter(s): the characters of s, each with the number of its occurrences
Counter(s) ==
    [c \in {s[i] : i \in 1..Len(s)} |-> Cardinality({i \in 1..Len(s) : s[i] = c})]

\* _get_available_languages(): the names of the .json files of the folder
available_languages(st) == DOMAIN st

\* sum of term[c] over the characters of chars
RECURSIVE SumOver(_, _)
SumOver(chars, term) ==
    IF chars = {}
    THEN 0
    ELSE LET c == CHOOSE x \in chars : TRUE
         IN  term[c] + SumOver(chars \ {c}, term)

Abs(x) == IF x < 0 THEN 0 - x ELSE x

\* A similarity 1 - sum/text_length as the exact fraction num/den, den > 0,
\* sum being total/FreqDen.  No term is added for an empty text, so the
\* division by text_length = 0 never happens.
OneMinus(total, text_length) ==
    IF total = 0
    THEN [num |-> 1, den |-> 1]
    ELSE [num |-> FreqDen * text_length - total, den |-> FreqDen * text_length]

\* the terms |frequency - text_frequency[char]| of detect_language, times
\* FreqDen; a character of the table that the text lacks adds nothing
DetectTerm(frequency_table, text_frequency) ==
    [char \in DOMAIN frequency_table |->
        IF char \in DOMAIN text_frequency
        THEN Abs(frequency_table[char] - FreqDen * text_frequency[char])
        ELSE 0]

\* the loop over frequency_table.items() of detect_language
DetectSimilarity(frequency_table, text_frequency, text_length) ==
    OneMinus(SumOver(DOMAIN frequency_table, DetectTerm(frequency_table, text_frequency)),
             text_length)

\* a loader that ignores the languages that have no file
LoadTablesSkipping(langs, st) ==
    [raised |-> "none",
     tables |-> [l \in {langs[i] : i \in 1..Len(langs)} \cap DOMAIN st |-> st[l]]]

\* with open(f'frequency_tables/{language}.json') for every listed language:
\* the first missing file raises
LoadTables(langs, st) ==
    IF \E i \in 1..Len(langs) : langs[i] \notin DOMAIN st
    THEN [raised |-> "FileNotFoundError", tables |-> <<>>]
    ELSE [raised |-> "none", tables |-> [l \in {langs[i] : i \in 1..Len(langs)} |-> st[l]]]

\* list(_get_available_languages()): the available languages in some order
\* (the order does not reach the returned mapping's content)
RECURSIVE ListOf(_)
ListOf(S) ==
    IF S = {}
    THEN <<>>
    ELSE LET x == CHOOSE y \in S : TRUE IN <<x>> \o ListOf(S \ {x})

\* detect_language(text, languages) with the folder holding st
detect_language(t, langs, st) ==
    LET listed == IF langs = None THEN ListOf(available_languages(st)) ELSE langs[1]
        loaded == LoadTables(listed, st)
    IN  IF loaded.raised # "none"
        THEN [raised |-> loaded.raised, value |-> <<>>]
        ELSE [raised |-> "none",
              value |-> [l \in DOMAIN loaded.tables |->
                            DetectSimilarity(loaded.tables[l], Counter(Lower(t)), Len(t))]]

\* terms that charge the expected frequency of a character the text lacks
TypicalTermUnguarded(frequency_table, text_frequency) ==
    [char \in DOMAIN frequency_table |->
        IF char \in DOMAIN text_frequency
        THEN Abs(frequency_table[char] - FreqDen * text_frequency[char])
        ELSE frequency_table[char]]

\* the terms |frequency - text_frequency[char]| of is_typical, times
\* FreqDen; a character of the table that the text lacks adds nothing
TypicalTerm(frequency_table, text_frequency) ==
    [char \in DOMAIN frequency_table |->
        IF char \in DOMAIN text_frequency
        THEN Abs(frequency_table[char] - FreqDen * text_frequency[char])
        ELSE 0]

\* the loop over frequency_table.items() of is_typical
TypicalSimilarity(frequency_table, text_frequency, text_length) ==
    OneMinus(SumOver(DOMAIN frequency_table, TypicalTerm(frequency_table, text_frequency)),
             text_length)

\* (1 - similarity) > threshold, the threshold being th/ThresholdDen
Exceeds(score, th) == score.num * ThresholdDen > th * score.den

\* is_typical(text, language, threshold) with the folder holding st
is_typical(t, lang, th, st) ==
    IF lang \notin available_languages(st)
    THEN [raised |-> "ValueError", value |-> None]
    ELSE [raised |-> "none",
          value |-> Some(Exceeds(TypicalSimilarity(st[lang], Counter(Lower(t)), Len(t)), th))]

\* ------------------------------------------------------------- inputs
Texts == UNION {[1..len -> Alphabet] : len \in 0..MaxLen}

MinLengths == 1..(MaxLen \div 2)

Numbers == (-1)..MaxNumber

SpaceLists == UNION {[1..len -> Numbers] : len \in 0..MaxSpaces}

NChoices == {None} \cup {Some(k) : k \in (-1)..MaxN}

\* offset lists as find_repeat_sequences builds them: strictly increasing
OffsetLists ==
    {p \in UNION {[1..len -> 0..MaxOffsets] : len \in 1..MaxOffsets} :
        \A i \in 1..(Len(p) - 1) : p[i] < p[i + 1]}

\* sequence maps of one or two keys
SequenceMaps ==
    {<<>>} \cup {<< <<<<"a">>, p>> >> : p \in OffsetLists}
           \cup {<< <<<<"a">>, p>>, <<<<"b">>, q>> >> : p \in OffsetLists, q \in OffsetLists}

LangTexts == UNION {[1..len -> LangAlphabet] : len \in 0..MaxTextLen}

\* a frequency table: empty, or an expected frequency for every character
Tables == {<<>>} \cup [TableChars -> 0..MaxFreq]

\* the folder frequency_tables: a table for each language it holds
Stores == UNION {[names -> Tables] : names \in SUBSET LangNames}

LanguageLists ==
    {None} \cup {Some(l) : l \in UNION {[1..len -> LangNames] : len \in 0..MaxLanguages}}

Thresholds == {0 - ThresholdDen, 0, DefaultThreshold, ThresholdDen}

\* a block of at least two characters, repeated at least twice
RECURSIVE Repeat(_, _)
Repeat(block, r) == IF r = 0 THEN <<>> ELSE block \o Repeat(block, r - 1)

RepeatedTexts ==
    {Repeat(block, r) :
        block \in UNION {[1..k -> Alphabet] : k \in 2..(MaxRepeatedLen \div 2)},
        r \in 2..(MaxRepeatedLen \div 2)}
    \cap UNION {[1..len -> Alphabet] : len \in 0..MaxRepeatedLen}

\* ------------------------------------------------------------- actions
Init ==
    /\ op = "idle"
    /\ piped = FALSE
    /\ text = <<>>
    /\ min_length = DefaultMinLength
    /\ sequences = <<>>
    /\ spaces = <<>>
    /\ number = 0
    /\ divisors = {}
    /\ n = None
    /\ factors = <<>>
    /\ key_lengths = <<>>
    /\ result = <<>>
    /\ raised = "none"
    /\ store = <<>>
    /\ languages = None
    /\ language = ""
    /\ threshold = DefaultThreshold
    /\ similarities = <<>>
    /\ typical = None

\* find_repeat_sequences(t, m)
FindRepeatSequences ==
    /\ op = "idle"
    /\ \E t \in Texts, m \in MinLengths :
          LET r == find_repeat_sequences(t, m)
          IN  /\ text' = t
              /\ min_length' = m
              /\ sequences' = r.value
              /\ raised' = r.raised
    /\ op' = "find_repeat_sequences"
    /\ UNCHANGED <<piped, spaces, number, divisors, n, factors, key_lengths, result,
                   language_vars>>

\* get_spaces(find_repeat_sequences(text, min_length))
GetSpacesPiped ==
    /\ op = "find_repeat_sequences"
    /\ raised = "none"
    /\ spaces' = get_spaces(sequences)
    /\ op' = "get_spaces"
    /\ piped' = TRUE
    /\ UNCHANGED <<text, min_length, sequences, number, divisors, n, factors,
                   key_lengths, result, raised, language_vars>>

\* get_spaces(d) on a sequence map given directly
GetSpaces ==
    /\ op = "idle"
    /\ \E d \in SequenceMaps :
          /\ sequences' = d
          /\ spaces' = get_spaces(d)
    /\ op' = "get_spaces"
    /\ UNCHANGED <<piped, text, min_length, number, divisors, n, factors,
                   key_lengths, result, raised, language_vars>>

\* find_factors(num)
FindFactors ==
    /\ op = "idle"
    /\ \E num \in Numbers :
          LET r == find_factors(num)
          IN  /\ number' = num
              /\ divisors' = r.value
              /\ raised' = r.raised
    /\ op' = "find_factors"
    /\ UNCHANGED <<piped, text, min_length, sequences, spaces, n, factors,
                   key_lengths, result, language_vars>>

\* the call find_key_lengths(sp, k)
CallFindKeyLengths(sp, k) ==
    \E order \in IterationOrders({sp[j] : j \in 1..Len(sp)} \ ((-1)..1)) :
        LET r == find_key_lengths(sp, k, order)
        IN  /\ n' = k
            /\ factors' = r.factors
            /\ key_lengths' = r.key_lengths
            /\ result' = r.value
            /\ raised' = r.raised

\* find_key_lengths(get_spaces(...), k)
FindKeyLengthsPiped ==
    /\ op = "get_spaces"
    /\ piped
    /\ \E k \in NChoices : CallFindKeyLengths(spaces, k)
    /\ op' = "find_key_lengths"
    /\ UNCHANGED <<piped, text, min_length, sequences, spaces, number, divisors,
                   language_vars>>

\* find_key_lengths(sp, k) on spacings given directly
FindKeyLengths ==
    /\ op = "idle"
    /\ \E sp \in SpaceLists, k \in NChoices :
          /\ spaces' = sp
          /\ CallFindKeyLengths(sp, k)
    /\ op' = "find_key_lengths"
    /\ UNCHANGED <<piped, text, min_length, sequences, number, divisors,
                   language_vars>>

\* the call has returned or raised; nothing is kept between calls
Return ==
    /\ op # "idle"
    /\ op' = "idle"
    /\ piped' = FALSE
    /\ text' = <<>>
    /\ min_length' = DefaultMinLength
    /\ sequences' = <<>>
    /\ spaces' = <<>>
    /\ number' = 0
    /\ divisors' = {}
    /\ n' = None
    /\ factors' = <<>>
    /\ key_lengths' = <<>>
    /\ result' = <<>>
    /\ raised' = "none"
    /\ store' = <<>>
    /\ languages' = None
    /\ language' = ""
    /\ threshold' = DefaultThreshold
    /\ similarities' = <<>>
    /\ typical' = None

\* detect_language(t, langs)
DetectLanguage ==
    /\ op = "idle"
    /\ \E t \in LangTexts, langs \in LanguageLists, st \in Stores :
          LET r == detect_language(t, langs, st)
          IN  /\ text' = t
              /\ languages' = langs
              /\ store' = st
              /\ similarities' = r.value
              /\ raised' = r.raised
    /\ op' = "detect_language"
    /\ UNCHANGED <<piped, kasiski_vars, language, threshold, typical>>

\* the call is_typical(t, lang, th)
CallIsTypical(t, lang, th, st) ==
    LET r == is_typical(t, lang, th, st)
    IN  /\ language' = lang
        /\ threshold' = th
        /\ typical' = r.value
        /\ raised' = r.raised

\* is_typical(t, lang, th)
IsTypical ==
    /\ op = "idle"
    /\ \E t \in LangTexts, lang \in LangNames, th \in Thresholds, st \in Stores :
          /\ text' = t
          /\ store' = st
          /\ CallIsTypical(t, lang, th, st)
    /\ op' = "is_typical"
    /\ UNCHANGED <<piped, kasiski_vars, languages, similarities>>

\* is_typical(text, lang, th) on the text and the folder of the
\* detect_language call before it
IsTypicalSameText ==
    /\ op = "detect_language"
    /\ raised = "none"
    /\ \E lang \in LangNames, th \in Thresholds : CallIsTypical(text, lang, th, store)
    /\ op' = "is_typical"
    /\ piped' = TRUE
    /\ UNCHANGED <<text, store, kasiski_vars, languages, similarities>>

NextLanguage ==
    \/ DetectLanguage
    \/ IsTypical
    \/ IsTypicalSameText
    \/ Return

SpecLanguage == Init /\ [][NextLanguage]_vars

\* find_repeat_sequences(t) on a text formed by repeating a block
FindRepeatSequencesOfRepeatedBlock ==
    /\ op = "idle"
    /\ \E t \in RepeatedTexts :
          LET r == find_repeat_sequences(t, DefaultMinLength)
          IN  /\ text' = t
              /\ sequences' = r.value
              /\ raised' = r.raised
    /\ op' = "find_repeat_sequences"
    /\ UNCHANGED <<piped, min_length, spaces, number, divisors, n, factors,
                   key_lengths, result, language_vars>>

NextRoundTrip ==
    \/ FindRepeatSequencesOfRepeatedBlock
    \/ GetSpacesPiped
    \/ FindKeyLengthsPiped
    \/ Return

SpecRoundTrip == Init /\ [][NextRoundTrip]_vars

Next ==
    \/ FindRepeatSequences
    \/ GetSpacesPiped
    \/ GetSpaces
    \/ FindFactors
    \/ FindKeyLengthsPiped
    \/ FindKeyLengths
    \/ Return

Spec == Init /\ [][Next]_vars

\* ------------------------------------------------------------- properties
\* the start indices at which s occurs in t, the last possible one included
Occurrences(t, s) ==
    {i \in 0..(Len(t) - Len(s)) : Slice(t, i, i + Len(s)) = s}

Elements(q) == {q[j] : j \in 1..Len(q)}

AllAboveOne(sp) == \A j \in 1..Len(sp) : sp[j] > 1

\* the number of spacings, counted with multiplicity, that f divides
Votes(f, sp) == Cardinality({j \in 1..Len(sp) : sp[j] % f = 0})

\* the largest spacing (0 when there is none)
Largest(sp) ==
    IF sp = <<>> THEN 0 ELSE CHOOSE x \in Elements(sp) : \A y \in Elements(sp) : y <= x

\* the integers >= 2 that divide at least one spacing
Candidates(sp) ==
    {f \in 2..Largest(sp) : \E j \in 1..Len(sp) : sp[j] % f = 0}

\* the index at which f was first appended to the list factors
FirstTallied(f) == CHOOSE i \in 1..Len(factors) :
    factors[i] = f /\ \A j \in 1..(i - 1) : factors[j] # f

\* the pairs are (factor, votes) pairs of distinct factors, counts non-increasing
WellRanked(ranking, sp) ==
    /\ \A i, j \in 1..Len(ranking) : ranking[i][1] = ranking[j][1] => i = j
    /\ \A i \in 1..Len(ranking) :
          /\ ranking[i][1] \in Candidates(sp)
          /\ ranking[i][2] = Votes(ranking[i][1], sp)
    /\ \A i, j \in 1..Len(ranking) : i < j => ranking[i][2] >= ranking[j][2]

\* C1: every key of find_repeat_sequences(T, m) has as its offset list exactly
\* the set of all start positions at which it occurs in T, an occurrence that
\* ends at the last character of T included.
C1_OffsetsAreAllOccurrences ==
    (op = "find_repeat_sequences" /\ raised = "none") =>
        \A j \in 1..Len(sequences) :
            Elements(sequences[j][2]) = Occurrences(text, sequences[j][1])

\* C2: for number > 1, find_factors(number) returns exactly the divisors d of
\* number with 2 <= d <= number.
C2_FactorsAreTheDivisorsAboveOne ==
    (op = "find_factors" /\ number > 1) =>
        /\ raised = "none"
        /\ divisors = {d \in 2..number : number % d = 0}

\* a perfect square has been factorized, its square root among the factors
C2_Witness ==
    /\ op = "find_factors"
    /\ number > 1
    /\ \E d \in divisors : d * d = number

\* C3: for spacings all > 1, find_key_lengths(spaces, None) returns one pair
\* (f, c) for each f >= 2 that divides a spacing, c the number of spacings f
\* divides, with non-increasing c, pairs of equal c in the order in which
\* their factors were first tallied.
C3_AllPairsByCountStable ==
    (op = "find_key_lengths" /\ n = None /\ AllAboveOne(spaces)) =>
        /\ raised = "none"
        /\ WellRanked(result, spaces)
        /\ {result[i][1] : i \in 1..Len(result)} = Candidates(spaces)
        /\ \A i, j \in 1..Len(result) :
              (i < j /\ result[i][2] = result[j][2]) =>
                  FirstTallied(result[i][1]) < FirstTallied(result[j][1])

\* a ranking with a tie that the tally order, not the factors' size, decides
C3_Witness ==
    /\ op = "find_key_lengths"
    /\ n = None
    /\ AllAboveOne(spaces)
    /\ \E i, j \in 1..Len(result) :
          i < j /\ result[i][2] = result[j][2] /\ result[i][1] > result[j][1]

\* C4: find_repeat_sequences(text, min_length) raises ValueError if and only
\* if min_length < 2 or min_length >= len(text) // 2, and then returns no
\* mapping, not even a partial one.
C4_ValueErrorIffOutOfRange ==
    op = "find_repeat_sequences" =>
        /\ raised \in {"none", "ValueError"}
        /\ raised = "ValueError" <=> (min_length < 2 \/ min_length >= Len(text) \div 2)
        /\ raised = "ValueError" => sequences = <<>>

\* the call with min_length exactly half the text length has raised
C4_Witness ==
    /\ op = "find_repeat_sequences"
    /\ raised = "ValueError"
    /\ min_length >= 2
    /\ min_length = Len(text) \div 2

\* the number of gaps of the first j keys of the sequence map d
RECURSIVE GapCount(_, _)
GapCount(d, j) == IF j = 0 THEN 0 ELSE GapCount(d, j - 1) + Len(d[j][2]) - 1

\* C5: get_spaces returns, for each key with k offsets, exactly the k-1
\* differences of adjacent offsets, each positive, as many spacings as the
\* sum of (occurrences - 1); single offsets only give the empty list.
C5_SpacesAreTheAdjacentGaps ==
    op = "get_spaces" =>
        /\ Len(spaces) = GapCount(sequences, Len(sequences))
        /\ \A j \in 1..Len(sequences) :
              \A i \in 1..(Len(sequences[j][2]) - 1) :
                  /\ spaces[GapCount(sequences, j - 1) + i]
                        = sequences[j][2][i + 1] - sequences[j][2][i]
                  /\ spaces[GapCount(sequences, j - 1) + i] > 0
        /\ (\A j \in 1..Len(sequences) : Len(sequences[j][2]) = 1) => spaces = <<>>

\* the map of find_repeat_sequences holds a key of three or more offsets
C5_Witness ==
    /\ op = "get_spaces"
    /\ piped
    /\ \E j \in 1..Len(sequences) : Len(sequences[j][2]) >= 3
    /\ Len(sequences) >= 2

\* C6: for spacings all > 1 and an integer n, find_key_lengths(spaces, n)
\* returns min(max(n, 0), D) pairs of the vote table, D the number of
\* distinct factors, counts non-increasing, every returned count at least
\* the count of every factor not returned; n <= 0 gives the empty sequence.
C6_TopNOfTheVoteTable ==
    (op = "find_key_lengths" /\ n # None /\ AllAboveOne(spaces)) =>
        /\ raised = "none"
        /\ Len(result) = Min(Max(n[1], 0), Cardinality(Candidates(spaces)))
        /\ WellRanked(result, spaces)
        /\ \A f \in Candidates(spaces) \ {result[i][1] : i \in 1..Len(result)} :
              \A i \in 1..Len(result) : result[i][2] >= Votes(f, spaces)

\* n pairs were returned and a factor with votes was left out
C6_Witness ==
    /\ op = "find_key_lengths"
    /\ n # None
    /\ AllAboveOne(spaces)
    /\ n[1] >= 1
    /\ Len(result) = n[1]
    /\ Len(result) < Cardinality(Candidates(spaces))

\* t is its first k characters repeated at least twice
IsRepetitionOf(t, k) ==
    /\ k >= 1
    /\ Len(t) % k = 0
    /\ Len(t) \div k >= 2
    /\ \A i \in 1..(Len(t) - k) : t[i] = t[i + k]

\* the period of a text formed by repeating a block: the length of the
\* shortest block whose repetition it is (0 for any other text)
Period(t) ==
    IF \E k \in 1..Len(t) : IsRepetitionOf(t, k)
    THEN CHOOSE k \in 1..Len(t) :
            IsRepetitionOf(t, k) /\ \A j \in 1..(k - 1) : ~IsRepetitionOf(t, j)
    ELSE 0

\* the pipeline has run, with the default min_length and n = None, on a
\* text of period k >= 2 that satisfies the min_length precondition
RoundTripDone ==
    /\ op = "find_key_lengths"
    /\ piped
    /\ n = None
    /\ min_length = DefaultMinLength
    /\ Period(text) >= 2

\* C7 as stated: the pipeline does not fail on such a text and no factor has
\* a strictly higher vote count than the period k.
C7_PeriodRanksTop ==
    RoundTripDone =>
        /\ raised = "none"
        /\ \E j \in 1..Len(result) :
              /\ result[j][1] = Period(text)
              /\ \A i \in 1..Len(result) : result[i][2] <= result[j][2]

\* C7 as amended: the pipeline raises ValueError exactly when a spacing is 1;
\* otherwise the ranking holds the period k and no factor greater than k.
C7_PeriodIsRankedUnlessSpacingOne ==
    RoundTripDone =>
        /\ raised = "ValueError" <=> 1 \in Elements(spaces)
        /\ raised \in {"none", "ValueError"}
        /\ raised = "none" =>
              /\ \E j \in 1..Len(result) : result[j][1] = Period(text)
              /\ \A i \in 1..Len(result) : result[i][1] <= Period(text)

\* the pipeline returned a ranking in which a factor out-votes the period
C7_Witness ==
    /\ RoundTripDone
    /\ raised = "none"
    /\ \E i, j \in 1..Len(result) :
          result[j][1] = Period(text) /\ result[i][2] > result[j][2]

ExpectedTotal(t, table) ==
    LET seen == {LowerChar(t[i]) : i \in 1..Len(t)}
        observed(c) == Cardinality({i \in 1..Len(t) : LowerChar(t[i]) = c})
    IN  SumOver(DOMAIN table \cap seen,
                [c \in DOMAIN table \cap seen |-> Abs(table[c] - FreqDen * observed(c))])

\* score is 1 - total / (FreqDen * len(t))
IsExpectedScore(score, t, table) ==
    IF Len(t) = 0
    THEN score.num = score.den
    ELSE score.num * FreqDen * Len(t)
            = score.den * (FreqDen * Len(t) - ExpectedTotal(t, table))

\* C9: is_typical(text, L, t) is true if and only if the score that
\* detect_language gives L for the same text and table is greater than t,
\* the score being the one the specification describes.
C9_SameScoringInBothEntryPoints ==
    (op = "is_typical" /\ piped /\ raised = "none" /\ language \in DOMAIN similarities) =>
        /\ typical[1] <=> Exceeds(similarities[language], threshold)
        /\ IsExpectedScore(similarities[language], text, store[language])

\* both calls have scored a text with an upper-case letter against a table
\* that expects a character the text lacks, and the text is typical
C9_Witness ==
    /\ op = "is_typical"
    /\ piped
    /\ raised = "none"
    /\ language \in DOMAIN similarities
    /\ typical = Some(TRUE)
    /\ threshold > 0
    /\ "A" \in Elements(text)
    /\ \E c \in DOMAIN store[language] :
          c \notin Elements(Lower(text)) /\ store[language][c] > 0

\* a substring of length >= m occurs in t at two adjacent start offsets
AdjacentRepeat(t, m) ==
    \E length \in m..Len(t) :
        \E i \in 0..(Len(t) - length - 1) :
            Slice(t, i, i + length) = Slice(t, i + 1, i + 1 + length)

\* C10, first part: find_key_lengths raises ValueError, returning nothing,
\* if and only if a spacing is <= 1.
C10_RaisesIffSpacingAtMostOne ==
    op = "find_key_lengths" =>
        /\ raised = "ValueError" <=> (\E j \in 1..Len(spaces) : spaces[j] <= 1)
        /\ raised \in {"none", "ValueError"}
        /\ raised = "ValueError" => result = <<>>

\* C10, second part: the pipeline itself reaches a spacing of 1 and fails
C10_PipelineRaised ==
    /\ op = "find_key_lengths"
    /\ piped
    /\ raised = "ValueError"
    /\ 1 \in Elements(spaces)

\* C10 as stated: find_key_lengths raises exactly on a spacing <= 1, and
\* get_spaces(find_repeat_sequences(T, m)) contains 1 whenever a substring
\* of length >= m occurs in T at two adjacent start offsets.
C10_SpacingOneWheneverAdjacentRepeat ==
    /\ C10_RaisesIffSpacingAtMostOne
    /\ (op = "get_spaces" /\ piped /\ AdjacentRepeat(text, min_length)) =>
          1 \in Elements(spaces)

====
